---- MODULE Spec2Model ----
(***************************************************************************)
(* Model of TIME.py: the per-ticker High/Open/Low percentage metrics       *)
(* (calculate_metrics), the sequential batch loop (run_analysis) and the   *)
(* report block (signal, ranking, summary statistics).                     *)
(*                                                                         *)
(* Percentages are Python floats (IEEE-754 binary64).  A finite positive   *)
(* double is modelled exactly as [k |-> "num", e, m] with m a sequence of  *)
(* MantBits bits, most significant first and m[1] = 1, standing for the    *)
(* value (0.m[1]m[2]...m[53])_2 * 2^e.  The representation is unique, so   *)
(* equality of doubles is equality of records.  Every operation rounds to  *)
(* nearest, ties to even, as the hardware does.                            *)
(***************************************************************************)
EXTENDS Integers, Sequences, FiniteSets

\* ------------------------------------------------------------------------
\* IEEE-754 binary64 arithmetic on the values the program computes
\* ------------------------------------------------------------------------

MantBits == 53

FZero == [k |-> "zero", e |-> 0, m |-> <<>>]

FNaN == [k |-> "nan", e |-> 0, m |-> <<>>]

RECURSIVE IntBitsAcc(_)
\* st = [c: what is left of the number, acc: the digits found so far]
IntBitsAcc(st) ==
    IF st.c = 0 THEN st.acc
    ELSE IntBitsAcc([c |-> st.c \div 2, acc |-> <<st.c % 2>> \o st.acc])

\* binary digits of a natural number, most significant first (<<>> for 0)
IntBits(c) == IntBitsAcc([c |-> c, acc |-> <<>>])

\* number of leading zero bits of a bit string
LeadingZeros(bits) ==
    IF \A p \in 1..Len(bits) : bits[p] = 0 THEN Len(bits)
    ELSE (CHOOSE p \in 1..Len(bits) :
              bits[p] = 1 /\ \A j \in 1..(p - 1) : bits[j] = 0) - 1

\* n zero bits
Zeros(n) == [p \in 1..n |-> 0]

\* some bit of bits[p..] is 1
AnyOne(bits, p) == \E j \in p..Len(bits) : bits[j] = 1

\* bits[1..n] plus one unit in the last place; c = 1 on carry out
IncBits(bits, n) ==
    IF \A p \in 1..n : bits[p] = 1 THEN [bits |-> Zeros(n), c |-> 1]
    ELSE LET z == CHOOSE p \in 1..n :
                      bits[p] = 0 /\ \A j \in (p + 1)..n : bits[j] = 1
         IN  [bits |-> [p \in 1..n |-> IF p < z THEN bits[p]
                                       ELSE IF p = z THEN 1 ELSE 0],
              c |-> 0]

\* the double nearest to (0.bits0)_2 * 2^e0 (plus a nonzero tail below the
\* last bit when sticky), ties to even
FRound(bits0, e0, sticky) ==
    LET z == LeadingZeros(bits0)
        bits == SubSeq(bits0, z + 1, Len(bits0))
        e == e0 - z
    IN  IF bits = <<>> THEN FZero
        ELSE IF Len(bits) <= MantBits
             THEN [k |-> "num", e |-> e,
                   m |-> bits \o Zeros(MantBits - Len(bits))]
        ELSE LET keep == SubSeq(bits, 1, MantBits)
                 guard == bits[MantBits + 1]
                 rest == sticky \/ AnyOne(bits, MantBits + 2)
                 up == guard = 1 /\ (rest \/ keep[MantBits] = 1)
                 inc == IncBits(keep, MantBits)
             IN  IF ~up THEN [k |-> "num", e |-> e, m |-> keep]
                 ELSE IF inc.c = 0
                      THEN [k |-> "num", e |-> e, m |-> inc.bits]
                 ELSE [k |-> "num", e |-> e + 1,
                       m |-> <<1>> \o SubSeq(inc.bits, 1, MantBits - 1)]

RECURSIVE DivBitsAcc(_, _, _)
\* long division of the bit string x by the natural d, most significant
\* bit first; st.i = next position, st.r = remainder, st.q = quotient bits
\* so far, st.sig = quotient bits produced since its first 1
DivBitsAcc(x, d, st) ==
    IF (st.i > Len(x) /\ st.r = 0) \/ st.sig >= MantBits + 2
    THEN [q |-> st.q, sticky |-> (st.r # 0) \/ AnyOne(x, st.i)]
    ELSE LET b == IF st.i <= Len(x) THEN x[st.i] ELSE 0
             t == 2 * st.r + b
             qb == IF t >= d THEN 1 ELSE 0
         IN  DivBitsAcc(x, d,
                 [i |-> st.i + 1, r |-> t - d * qb, q |-> Append(st.q, qb),
                  sig |-> IF st.sig > 0 \/ qb = 1 THEN st.sig + 1 ELSE 0])

\* x / d for a double x and a natural d > 0 (float64 / int)
FDivInt(x, d) ==
    IF x.k # "num" THEN x
    ELSE LET r == DivBitsAcc(x.m, d, [i |-> 1, r |-> 0, q |-> <<>>, sig |-> 0])
         IN  FRound(r.q, x.e, r.sticky)

\* the double equal to the natural c (c < 2^31, always exact)
FInt(c) == FRound(IntBits(c), Len(IntBits(c)), FALSE)

RECURSIVE MulBitsAcc(_, _, _)
\* x * d for a bit string x and a natural d, from the last bit with carry
MulBitsAcc(x, d, st) ==
    IF st.i = 0 THEN IntBits(st.carry) \o st.acc
    ELSE LET t == x[st.i] * d + st.carry
         IN  MulBitsAcc(x, d, [i |-> st.i - 1, carry |-> t \div 2,
                               acc |-> <<t % 2>> \o st.acc])

\* x * d for a double x and a natural d (float64 * int)
FMulInt(x, d) ==
    IF x.k # "num" THEN x
    ELSE IF d = 0 THEN FZero
    ELSE LET p == MulBitsAcc(x.m, d, [i |-> MantBits, carry |-> 0, acc |-> <<>>])
         IN  FRound(p, x.e + Len(p) - MantBits, FALSE)

RECURSIVE AddBitsAcc(_, _, _)
\* a + b for bit strings of equal length, from the last bit with carry
AddBitsAcc(a, b, st) ==
    IF st.i = 0 THEN <<st.carry>> \o st.acc
    ELSE LET t == a[st.i] + b[st.i] + st.carry
         IN  AddBitsAcc(a, b, [i |-> st.i - 1, carry |-> t \div 2,
                               acc |-> <<t % 2>> \o st.acc])

\* x + y for doubles >= 0 (float64 + float64)
FAdd(x, y) ==
    IF x.k = "nan" \/ y.k = "nan" THEN FNaN
    ELSE IF x.k = "zero" THEN y
    ELSE IF y.k = "zero" THEN x
    ELSE LET hi == IF x.e >= y.e THEN x ELSE y
             lo == IF x.e >= y.e THEN y ELSE x
             d == hi.e - lo.e
             a == hi.m \o Zeros(d)
             b == Zeros(d) \o lo.m
             s == AddBitsAcc(a, b, [i |-> MantBits + d, carry |-> 0, acc |-> <<>>])
         IN  FRound(s, hi.e + 1, FALSE)

RECURSIVE FirstDiff(_, _, _, _)
\* the first position of lo..hi where the bit strings a and b differ, for
\* a and b that differ somewhere in lo..hi
FirstDiff(a, b, lo, hi) ==
    IF lo = hi THEN lo
    ELSE LET mid == (lo + hi) \div 2
         IN  IF SubSeq(a, lo, mid) = SubSeq(b, lo, mid)
             THEN FirstDiff(a, b, mid + 1, hi)
             ELSE FirstDiff(a, b, lo, mid)

\* a < b for bit strings of equal length
BitsLess(a, b) ==
    a # b /\ a[FirstDiff(a, b, 1, Len(a))] < b[FirstDiff(a, b, 1, Len(a))]

\* x < y for doubles >= 0; every comparison with NaN is false
FLess(x, y) ==
    IF x.k = "nan" \/ y.k = "nan" THEN FALSE
    ELSE IF y.k = "zero" THEN FALSE
    ELSE IF x.k = "zero" THEN TRUE
    ELSE IF x.e # y.e THEN x.e < y.e
    ELSE BitsLess(x.m, y.m)

FLeq(x, y) == x.k # "nan" /\ y.k # "nan" /\ ~FLess(y, x)

\* ------------------------------------------------------------------------
\* Values of the program
\* ------------------------------------------------------------------------

\* Python's None
None == [k |-> "None"]

\* a string is the sequence of its characters
Str(s) == s

DotNS == <<".", "N", "S">>

\* the first tickers of the list nifty_50, one character per element
Nifty50Head ==
    << <<"A", "D", "A", "N", "I", "E", "N", "T", ".", "N", "S">>,
       <<"A", "D", "A", "N", "I", "P", "O", "R", "T", "S", ".", "N", "S">>,
       <<"A", "P", "O", "L", "L", "O", "H", "O", "S", "P", ".", "N", "S">>,
       <<"A", "S", "I", "A", "N", "P", "A", "I", "N", "T", ".", "N", "S">>,
       <<"A", "X", "I", "S", "B", "A", "N", "K", ".", "N", "S">> >>

\* the run is checked on the first NumTickers tickers of the list
NumTickers == 3

nifty_50 == SubSeq(Nifty50Head, 1, NumTickers)

\* longest series drawn over every daily record
MaxDays == 2

\* longest series drawn over the two records of TrendDays
MaxTrendDays == 11

\* no frame of the model has more rows than this
MaxRows == 3 + MaxDays + MaxTrendDays

\* the names of the six percentage fields, in the order of price_equality
PctFields ==
    <<"High=Open%", "High>Open%", "High>Open>Low%", "High=Open>Low%",
      "Low=Open%", "Low<Open%">>

\* a price frame as yfinance returns it: its rows are the daily records,
\* columns tells whether the High/Open/Low columns exist
DataFrame(columns, rows) ==
    [k |-> "DataFrame", columns |-> columns, rows |-> rows]

Days(prices) == [Open : prices, High : prices, Low : prices]

\* three daily records: high > open > low, high = open > low, and
\* high > open = low
DayUp == [Open |-> 2, High |-> 3, Low |-> 1]

DayTop == [Open |-> 2, High |-> 2, Low |-> 1]

DayFloor == [Open |-> 1, High |-> 2, Low |-> 1]

RECURSIVE SeqsUpTo(_, _)
\* the sequences over S of length at most n
SeqsUpTo(S, n) ==
    IF n = 0 THEN {<<>>}
    ELSE LET shorter == SeqsUpTo(S, n - 1)
         IN  shorter \cup {Append(q, x) : q \in {r \in shorter : Len(r) = n - 1},
                                          x \in S}

\* ------------------------------------------------------------------------
\* calculate_metrics
\* ------------------------------------------------------------------------

RECURSIVE StrReplace(_, _)
\* s.replace(old, ""): every non-overlapping occurrence of old, found from
\* the left, is removed
StrReplace(s, old) ==
    IF Len(s) < Len(old) THEN s
    ELSE IF SubSeq(s, 1, Len(old)) = old
         THEN StrReplace(SubSeq(s, Len(old) + 1, Len(s)), old)
    ELSE <<s[1]>> \o StrReplace(Tail(s), old)

RECURSIVE SumBool(_)
\* the number of True entries of a boolean column
SumBool(b) ==
    IF b = <<>> THEN 0
    ELSE (IF Head(b) THEN 1 ELSE 0) + SumBool(Tail(b))

\* Condition with High>Open% taken as high >= open
ConditionHighNotBelow(f, r) ==
    LET diff_high_open == r.High - r.Open
        diff_open_low == r.Open - r.Low
    IN  CASE f = "High=Open%" -> diff_high_open = 0
          [] f = "High>Open%" -> diff_high_open >= 0
          [] f = "High>Open>Low%" -> diff_high_open > 0 /\ diff_open_low > 0
          [] f = "High=Open>Low%" -> diff_high_open = 0 /\ diff_open_low > 0
          [] f = "Low=Open%" -> diff_open_low = 0
          [] f = "Low<Open%" -> diff_open_low > 0

\* Condition with High>Open>Low% testing open > low alone
ConditionJointOneSided(f, r) ==
    LET diff_high_open == r.High - r.Open
        diff_open_low == r.Open - r.Low
    IN  CASE f = "High=Open%" -> diff_high_open = 0
          [] f = "High>Open%" -> diff_high_open > 0
          [] f = "High>Open>Low%" -> diff_open_low > 0
          [] f = "High=Open>Low%" -> diff_high_open = 0 /\ diff_open_low > 0
          [] f = "Low=Open%" -> diff_open_low = 0
          [] f = "Low<Open%" -> diff_open_low > 0

\* the six boolean columns of price_equality for the row r
Condition(f, r) ==
    LET diff_high_open == r.High - r.Open
        diff_open_low == r.Open - r.Low
    IN  CASE f = "High=Open%" -> diff_high_open = 0
          [] f = "High>Open%" -> diff_high_open > 0
          [] f = "High>Open>Low%" -> diff_high_open > 0 /\ diff_open_low > 0
          [] f = "High=Open>Low%" -> diff_high_open = 0 /\ diff_open_low > 0
          [] f = "Low=Open%" -> diff_open_low = 0
          [] f = "Low<Open%" -> diff_open_low > 0

\* column.mean() * 100 for a boolean column of n > 0 rows of which c are
\* True: the mean is float64(sum) / count, and the product is float64 * int.
\* Tabulated once for the series lengths of the model.
MeanTimes100 ==
    [n \in 1..MaxRows |->
        [c \in 0..n |-> FMulInt(FDivInt(FInt(c), n), 100)]]

price_equality(rows) ==
    [f \in {PctFields[j] : j \in 1..Len(PctFields)} |->
        MeanTimes100[Len(rows)]
                    [SumBool([j \in 1..Len(rows) |-> Condition(f, rows[j])])]]

\* calculate_metrics without the test for zero rows: the means of the
\* empty columns are NaN
calculate_metrics_unguarded(d, t) ==
    IF d = None THEN [ret |-> None, error |-> FALSE]
    ELSE IF ~d.columns THEN [ret |-> None, error |-> TRUE]
    ELSE [ret |-> [f \in {"Ticker"} \cup {PctFields[j] : j \in 1..Len(PctFields)} |->
                      IF f = "Ticker" THEN StrReplace(t, DotNS)
                      ELSE IF Len(d.rows) = 0 THEN FNaN
                      ELSE price_equality(d.rows)[f]],
          error |-> FALSE]

\* the value calculate_metrics returns and whether it reported an error
calculate_metrics(d, t) ==
    IF d = None \/ Len(d.rows) = 0 THEN [ret |-> None, error |-> FALSE]
    ELSE IF ~d.columns THEN [ret |-> None, error |-> TRUE]
    ELSE LET pe == price_equality(d.rows)
         IN  [ret |-> [f \in {"Ticker"} \cup DOMAIN pe |->
                          IF f = "Ticker" THEN StrReplace(t, DotNS) ELSE pe[f]],
              error |-> FALSE]

\* ------------------------------------------------------------------------
\* The report block: Signal, sort_values, summary statistics
\* ------------------------------------------------------------------------

\* Signal with >= in place of >
SignalNotBelow(row) ==
    IF FLeq(row["Low<Open%"], row["High>Open%"]) THEN "BUY" ELSE "SELL"

\* the lambda of df.apply: BUY when High>Open% > Low<Open%, else SELL
Signal(row) ==
    IF FLess(row["Low<Open%"], row["High>Open%"]) THEN "BUY" ELSE "SELL"

\* pd.DataFrame(results) with the Signal column added
WithSignal(rs) ==
    [j \in 1..Len(rs) |->
        [f \in DOMAIN rs[j] \cup {"Signal"} |->
            IF f = "Signal" THEN Signal(rs[j]) ELSE rs[j][f]]]

Reverse(q) == [j \in 1..Len(q) |-> q[Len(q) + 1 - j]]

\* the one-to-one maps of 1..n onto itself
Permutations(n) ==
    {p \in [1..n -> 1..n] : \A a, b \in 1..n : p[a] = p[b] => a = b}

\* items.argsort(kind="quicksort"): an indexer that puts items in
\* non-decreasing order.  The sort is not stable, so equal items come in
\* whichever order the build's quicksort leaves them.
argsort(items) ==
    LET less == [a \in 1..Len(items) |->
                    [b \in 1..Len(items) |-> FLess(items[a], items[b])]]
    IN  {p \in Permutations(Len(items)) :
            \A a, b \in 1..Len(items) : a < b => ~less[p[b]][p[a]]}

\* nargsort that sorts ascending whatever was asked
nargsort_ascending(items, ascending) ==
    {[j \in 1..Len(items) |-> p[j]] : p \in argsort(items)}

\* nargsort that reverses the column for a descending sort but not its
\* positions
nargsort_positions(items, ascending) ==
    LET its == IF ascending THEN items ELSE Reverse(items)
    IN  {IF ascending THEN p ELSE Reverse(p) : p \in argsort(its)}

\* the indexer sort_values computes for one key column: for a descending
\* sort the column and its positions are reversed, sorted ascending, and
\* the indexer reversed again
nargsort(items, ascending) ==
    LET n == Len(items)
        idx == [j \in 1..n |-> j]
        its == IF ascending THEN items ELSE Reverse(items)
        ids == IF ascending THEN idx ELSE Reverse(idx)
    IN  {LET indexer == [j \in 1..n |-> ids[p[j]]]
         IN  IF ascending THEN indexer ELSE Reverse(indexer) : p \in argsort(its)}

\* df.sort_values(by, ascending=...): the frames it can return
sort_values(df, by, ascending) ==
    {[j \in 1..Len(df) |-> df[indexer[j]]] :
        indexer \in nargsort([j \in 1..Len(df) |-> df[j][by]], ascending)}

RECURSIVE SumFloats(_)
\* Series.sum() of a float column: added up from the first row to the last
SumFloats(st) ==
    IF st.rest = <<>> THEN st.acc
    ELSE SumFloats([rest |-> Tail(st.rest), acc |-> FAdd(st.acc, Head(st.rest))])

\* Series.mean() of a float column: NaN for no rows, else sum / count
FloatMean(col) ==
    IF Len(col) = 0 THEN FNaN
    ELSE FDivInt(SumFloats([rest |-> col, acc |-> FZero]), Len(col))

\* frame[frame['Signal'] == sig]
WithSignalEq(frame, sig) == SelectSeq(frame, LAMBDA row : row["Signal"] = sig)

Column(frame, by) == [j \in 1..Len(frame) |-> frame[j][by]]

\* SummaryStatistics with the SELL average taken over every row
SummaryStatisticsUnfiltered(frame) ==
    [buy |-> Len(WithSignalEq(frame, "BUY")),
     sell |-> Len(WithSignalEq(frame, "SELL")),
     avg_buy |-> FloatMean(Column(WithSignalEq(frame, "BUY"), "High>Open>Low%")),
     avg_sell |-> FloatMean(Column(frame, "High>Open>Low%"))]

\* the four values of the Summary Statistics row, before formatting
SummaryStatistics(frame) ==
    [buy |-> Len(WithSignalEq(frame, "BUY")),
     sell |-> Len(WithSignalEq(frame, "SELL")),
     avg_buy |-> FloatMean(Column(WithSignalEq(frame, "BUY"), "High>Open>Low%")),
     avg_sell |-> FloatMean(Column(WithSignalEq(frame, "SELL"), "High>Open>Low%"))]

\* pc: where the script is; ticker, data, metrics: the arguments and result
\* of the latest calculate_metrics call; i: tickers processed so far;
\* results: the list run_analysis builds; processed: the tickers fetched
\* so far with what each fetch gave; ui: the elements written to the page;
\* final_results: the ranked frame; summary: the summary statistics
VARIABLES pc, ticker, data, metrics, ui, i, results, processed,
          final_results, summary

vars == <<pc, ticker, data, metrics, ui, i, results, processed,
          final_results, summary>>

\* ------------------------------------------------------------------------
\* calculate_metrics as a function of its arguments
\* ------------------------------------------------------------------------

Prices == {1, 2, 3}

\* high > open > low, and high = open > low
TrendDays == {DayUp, DayTop}

\* longest ticker drawn over TickerChars
MaxTickerLen == 4

TickerChars == {".", "N", "S", "A"}

ArgData ==
    {None}
    \cup {DataFrame(c, rows) : c \in BOOLEAN, rows \in SeqsUpTo(Days(Prices), MaxDays)}
    \cup {DataFrame(TRUE, rows) : rows \in SeqsUpTo(TrendDays, MaxTrendDays)}

ArgTickers ==
    SeqsUpTo(TickerChars, MaxTickerLen)
    \cup {t \o DotNS : t \in SeqsUpTo(TickerChars, MaxTickerLen)}
    \cup {nifty_50[j] : j \in 1..Len(nifty_50)}

MetricsInit ==
    /\ pc = "call"
    /\ \/ ticker \in ArgTickers /\ data \in {None, DataFrame(TRUE, <<>>)} \cup
              {DataFrame(TRUE, <<r>>) : r \in TrendDays}
       \/ ticker = nifty_50[1] /\ data \in ArgData
    /\ metrics = None
    /\ ui = <<>>
    /\ i = 0
    /\ results = <<>>
    /\ processed = <<>>
    /\ final_results = <<>>
    /\ summary = None

Calculate ==
    /\ pc = "call"
    /\ LET r == calculate_metrics(data, ticker)
       IN  /\ metrics' = r.ret
           /\ ui' = IF r.error THEN Append(ui, "error_metrics") ELSE ui
    /\ pc' = "returned"
    /\ UNCHANGED <<ticker, data, i, results, processed, final_results, summary>>

MetricsNext == Calculate

SpecMetrics == MetricsInit /\ [][MetricsNext]_vars

\* ------------------------------------------------------------------------
\* The script: Run Analysis, run_analysis, the report
\* ------------------------------------------------------------------------

\* what yf.download can hand back: a frame of any number of rows (here of
\* none, one, two or three), or a frame that has rows but not the price
\* columns
FetchData ==
    {DataFrame(TRUE, rows) :
        rows \in {<<>>, <<DayUp>>, <<DayTop>>, <<DayFloor>>,
                  <<DayUp, DayFloor>>, <<DayUp, DayFloor, DayFloor>>}}
    \cup {DataFrame(FALSE, <<DayUp>>)}

\* what became of one ticker, told from what the fetch gave
Outcome(raised, d) ==
    IF raised THEN "fetch_error"
    ELSE IF Len(d.rows) = 0 THEN "empty"
    ELSE IF ~d.columns THEN "calc_error"
    ELSE "ok"

Init ==
    /\ pc = "idle"
    /\ ticker = <<>>
    /\ data = None
    /\ metrics = None
    /\ ui = <<>>
    /\ i = 0
    /\ results = <<>>
    /\ processed = <<>>
    /\ final_results = <<>>
    /\ summary = None

\* the Run Analysis button (or auto-refresh) enters run_analysis
RunAnalysis ==
    /\ pc = "idle"
    /\ pc' = "loop"
    /\ ui' = Append(ui, "info")
    /\ i' = 0
    /\ results' = <<>>
    /\ UNCHANGED <<ticker, data, metrics, processed, final_results, summary>>

\* ProcessTicker that leaves the loop at the first ticker without a record
ProcessTickerStopping ==
    /\ pc = "loop"
    /\ i < Len(nifty_50)
    /\ \E raised \in BOOLEAN, d \in FetchData :
         LET t == nifty_50[i + 1]
             fetched == IF raised THEN None ELSE d
             r == calculate_metrics(fetched, t)
         IN  /\ raised => d = DataFrame(TRUE, <<>>)
             /\ ticker' = t
             /\ data' = fetched
             /\ metrics' = r.ret
             /\ results' = IF r.ret # None THEN Append(results, r.ret) ELSE results
             /\ ui' = ui \o (IF raised THEN <<"error_download">> ELSE <<>>)
                         \o (IF r.error THEN <<"error_metrics">> ELSE <<>>)
             /\ processed' = Append(processed, [ticker |-> t, outcome |-> Outcome(raised, d)])
             /\ i' = IF r.ret # None THEN i + 1 ELSE Len(nifty_50)
    /\ UNCHANGED <<pc, final_results, summary>>

\* one pass of the loop over nifty_50: get_stock_data, calculate_metrics,
\* append when a record came back
ProcessTicker ==
    /\ pc = "loop"
    /\ i < Len(nifty_50)
    /\ \E raised \in BOOLEAN, d \in FetchData :
         LET t == nifty_50[i + 1]
             fetched == IF raised THEN None ELSE d
             r == calculate_metrics(fetched, t)
         IN  /\ raised => d = DataFrame(TRUE, <<>>)
             /\ ticker' = t
             /\ data' = fetched
             /\ metrics' = r.ret
             /\ results' = IF r.ret # None THEN Append(results, r.ret) ELSE results
             /\ ui' = ui \o (IF raised THEN <<"error_download">> ELSE <<>>)
                         \o (IF r.error THEN <<"error_metrics">> ELSE <<>>)
             /\ processed' = Append(processed, [ticker |-> t, outcome |-> Outcome(raised, d)])
    /\ i' = i + 1
    /\ UNCHANGED <<pc, final_results, summary>>

\* Report that tests results against None instead of for emptiness
ReportUnguarded ==
    /\ pc = "loop"
    /\ i = Len(nifty_50)
    /\ \E sorted \in sort_values(WithSignal(results), "High>Open>Low%", FALSE) :
           /\ final_results' = sorted
           /\ summary' = SummaryStatistics(sorted)
           /\ ui' = ui \o <<"success", "expander", "dataframe", "summary",
                            "download_button", "footer">>
    /\ pc' = "done"
    /\ UNCHANGED <<ticker, data, metrics, i, results, processed>>

\* run_analysis returns and the script reports: the failure message when
\* no ticker gave a record, else the ranked table, the summary statistics
\* and the download button; the footer closes the page either way
Report ==
    /\ pc = "loop"
    /\ i = Len(nifty_50)
    /\ IF results = <<>>
       THEN /\ ui' = ui \o <<"error_all_failed", "footer">>
            /\ UNCHANGED <<final_results, summary>>
       ELSE \E sorted \in sort_values(WithSignal(results), "High>Open>Low%", FALSE) :
                /\ final_results' = sorted
                /\ summary' = SummaryStatistics(sorted)
                /\ ui' = ui \o <<"success", "expander", "dataframe", "summary",
                                 "download_button", "footer">>
    /\ pc' = "done"
    /\ UNCHANGED <<ticker, data, metrics, i, results, processed>>

\* any later interaction, or the auto-refresh timer, runs the script again
\* from the top
Rerun ==
    /\ pc = "done"
    /\ pc' = "idle"
    /\ ticker' = <<>>
    /\ data' = None
    /\ metrics' = None
    /\ ui' = <<>>
    /\ i' = 0
    /\ results' = <<>>
    /\ processed' = <<>>
    /\ final_results' = <<>>
    /\ summary' = None

Next == RunAnalysis \/ ProcessTicker \/ Report \/ Rerun

Spec == Init /\ [][Next]_vars

\* ------------------------------------------------------------------------
\* Properties of calculate_metrics (checked under SpecMetrics)
\* ------------------------------------------------------------------------

\* calculate_metrics has returned for a frame with price columns and rows
ReturnedForSeries ==
    /\ pc = "returned"
    /\ data # None
    /\ data.columns
    /\ Len(data.rows) > 0

\* the number of days of the series whose d1 = high - open and
\* d2 = open - low satisfy P
DaysWhere(P(_, _)) ==
    Cardinality({j \in 1..Len(data.rows) :
                    P(data.rows[j].High - data.rows[j].Open,
                      data.rows[j].Open - data.rows[j].Low)})

\* count / total * 100 in float64
PercentOf(count, total) == MeanTimes100[total][count]

\* C1: for every non-empty price series each of the six returned fields is
\* (days satisfying the field's condition) / (total days) * 100, with
\* d1 = high - open, d2 = open - low and the conditions of the table.
C1_Percentages ==
    ReturnedForSeries =>
        LET n == Len(data.rows)
            HE(d1, d2) == d1 = 0
            HG(d1, d2) == d1 > 0
            HGL(d1, d2) == d1 > 0 /\ d2 > 0
            HEL(d1, d2) == d1 = 0 /\ d2 > 0
            LE(d1, d2) == d2 = 0
            LL(d1, d2) == d2 > 0
        IN  /\ metrics # None
            /\ metrics["High=Open%"] = PercentOf(DaysWhere(HE), n)
            /\ metrics["High>Open%"] = PercentOf(DaysWhere(HG), n)
            /\ metrics["High>Open>Low%"] = PercentOf(DaysWhere(HGL), n)
            /\ metrics["High=Open>Low%"] = PercentOf(DaysWhere(HEL), n)
            /\ metrics["Low=Open%"] = PercentOf(DaysWhere(LE), n)
            /\ metrics["Low<Open%"] = PercentOf(DaysWhere(LL), n)

\* a two-day series with one day of high > open > low and one day of
\* high = open = low has been measured: 50% in four fields, 0% in one
C1_Witness ==
    /\ ReturnedForSeries
    /\ Len(data.rows) = 2
    /\ metrics["High>Open>Low%"] = PercentOf(1, 2)
    /\ metrics["High=Open%"] = PercentOf(1, 2)
    /\ metrics["Low=Open%"] = PercentOf(1, 2)
    /\ metrics["High=Open>Low%"] = FZero

\* C2: for a null series or a series of zero days calculate_metrics
\* returns None, never a metrics record.
C2_EmptyIsNone ==
    (pc = "returned" /\ (data = None \/ Len(data.rows) = 0)) => metrics = None

\* an existing frame with columns and zero rows was given and None returned
C2_Witness ==
    /\ pc = "returned"
    /\ data # None
    /\ data.columns
    /\ Len(data.rows) = 0
    /\ metrics = None

\* t ends with the market suffix
HasSuffix(t) ==
    Len(t) >= Len(DotNS) /\ SubSeq(t, Len(t) - Len(DotNS) + 1, Len(t)) = DotNS

\* t without its trailing market suffix, unchanged when it has none
WithoutTrailingSuffix(t) ==
    IF HasSuffix(t) THEN SubSeq(t, 1, Len(t) - Len(DotNS)) ELSE t

\* C9: the Ticker field of a returned record is the input ticker with its
\* trailing ".NS" removed and nothing else changed.
C9_TrailingSuffixOnly ==
    (pc = "returned" /\ metrics # None) =>
        metrics["Ticker"] = WithoutTrailingSuffix(ticker)

\* every day of the series has high >= open >= low
Ordered ==
    \A j \in 1..Len(data.rows) :
        data.rows[j].High >= data.rows[j].Open /\ data.rows[j].Open >= data.rows[j].Low

\* C10 as stated, on the returned doubles: the two sums of disjoint fields
\* stay within Low<Open% and 100, a joint field within its single field,
\* with equality of the three sums when every day has high >= open >= low.
C10_AsStated ==
    ReturnedForSeries =>
        LET hundred == FInt(100)
            s1 == FAdd(metrics["High>Open>Low%"], metrics["High=Open>Low%"])
            s2 == FAdd(metrics["High=Open%"], metrics["High>Open%"])
            s3 == FAdd(metrics["Low=Open%"], metrics["Low<Open%"])
        IN  /\ FLeq(s1, metrics["Low<Open%"])
            /\ FLeq(metrics["High>Open>Low%"], metrics["High>Open%"])
            /\ FLeq(metrics["High=Open>Low%"], metrics["High=Open%"])
            /\ FLeq(s2, hundred)
            /\ FLeq(s3, hundred)
            /\ Ordered => /\ s1 = metrics["Low<Open%"]
                          /\ s2 = hundred
                          /\ s3 = hundred

\* the whole number of days k with metrics[f] = k / n * 100
DayCount(f) ==
    CHOOSE c \in 0..Len(data.rows) : PercentOf(c, Len(data.rows)) = metrics[f]

\* C10 amended: every returned percentage is k / n * 100 for a whole day
\* count k, the relations hold of these day counts (the sums against n in
\* place of 100), and the two single-field relations hold of the doubles.
C10_DayCounts ==
    ReturnedForSeries =>
        LET n == Len(data.rows)
        IN  /\ \A j \in 1..Len(PctFields) :
                   \E c \in 0..n : PercentOf(c, n) = metrics[PctFields[j]]
            /\ DayCount("High>Open>Low%") + DayCount("High=Open>Low%")
                   <= DayCount("Low<Open%")
            /\ DayCount("High>Open>Low%") <= DayCount("High>Open%")
            /\ DayCount("High=Open>Low%") <= DayCount("High=Open%")
            /\ DayCount("High=Open%") + DayCount("High>Open%") <= n
            /\ DayCount("Low=Open%") + DayCount("Low<Open%") <= n
            /\ FLeq(metrics["High>Open>Low%"], metrics["High>Open%"])
            /\ FLeq(metrics["High=Open>Low%"], metrics["High=Open%"])
            /\ Ordered =>
                   /\ DayCount("High>Open>Low%") + DayCount("High=Open>Low%")
                          = DayCount("Low<Open%")
                   /\ DayCount("High=Open%") + DayCount("High>Open%") = n
                   /\ DayCount("Low=Open%") + DayCount("Low<Open%") = n

\* three ordered days, one with high > open and two with high = open, all
\* with open > low: the day counts add up to 3 while the doubles
\* 33.33333333333333 and 66.66666666666666 add up to 99.99999999999999
C10_Witness ==
    /\ ReturnedForSeries
    /\ Len(data.rows) = 3
    /\ Ordered
    /\ DayCount("High>Open%") = 1
    /\ DayCount("High=Open%") = 2
    /\ DayCount("Low<Open%") = 3
    /\ FAdd(metrics["High=Open%"], metrics["High>Open%"]) # FInt(100)

\* ------------------------------------------------------------------------
\* Properties of the run (checked under Spec)
\* ------------------------------------------------------------------------

\* the tickers of processed whose fetch gave a series that could be
\* measured, in the order they were processed
Succeeded == SelectSeq(processed, LAMBDA e : e.outcome = "ok")

\* C3: whatever the per-ticker outcomes, the tickers of the list are
\* processed once each in list order, none is skipped after a failure, and
\* results holds one record for each ticker that succeeded and none for
\* one that failed, in processing order.
C3_EveryTickerOnce ==
    /\ pc \in {"loop", "done"} =>
        /\ Len(processed) = i
        /\ \A j \in 1..i : processed[j].ticker = nifty_50[j]
        /\ Len(results) = Len(Succeeded)
        /\ \A j \in 1..Len(results) :
               results[j]["Ticker"] = WithoutTrailingSuffix(Succeeded[j].ticker)
    /\ pc = "done" => i = Len(nifty_50)

\* a finished run in which the second ticker failed: the first and the
\* third ticker are the two records of results, in that order
C3_Witness ==
    /\ pc = "done"
    /\ Len(processed) = 3
    /\ processed[1].outcome = "ok"
    /\ processed[2].outcome = "fetch_error"
    /\ processed[3].outcome = "ok"
    /\ Len(results) = 2
    /\ results[1]["Ticker"] = WithoutTrailingSuffix(nifty_50[1])
    /\ results[2]["Ticker"] = WithoutTrailingSuffix(nifty_50[3])

\* the page elements that make up the report
ReportElements == {"success", "dataframe", "summary", "download_button"}

Shown(e) == \E j \in 1..Len(ui) : ui[j] = e

\* C4: when every ticker of a run failed the run shows the top-level
\* failure and no table, no summary statistics and no download; when one
\* succeeded it shows no top-level failure and the whole report.
C4_AllFailed ==
    pc = "done" =>
        IF \A j \in 1..Len(processed) : processed[j].outcome # "ok"
        THEN /\ Shown("error_all_failed")
             /\ \A e \in ReportElements : ~Shown(e)
             /\ final_results = <<>>
             /\ summary = None
        ELSE /\ ~Shown("error_all_failed")
             /\ \A e \in ReportElements : Shown(e)
             /\ final_results # <<>>
             /\ summary # None

\* a finished run in which the three tickers failed in the three ways
C4_Witness ==
    /\ pc = "done"
    /\ \E a, b, c \in 1..Len(processed) :
           /\ processed[a].outcome = "fetch_error"
           /\ processed[b].outcome = "empty"
           /\ processed[c].outcome = "calc_error"
    /\ \A j \in 1..Len(processed) : processed[j].outcome # "ok"
    /\ Shown("error_all_failed")

\* C5: every row of the report has Signal BUY exactly when its High>Open%
\* is strictly greater than its Low<Open%, and SELL otherwise, equal
\* values included.
C5_Signal ==
    \A j \in 1..Len(final_results) :
        LET row == final_results[j]
        IN  /\ row["Signal"] \in {"BUY", "SELL"}
            /\ row["Signal"] = "BUY" <=>
                   (/\ row["High>Open%"] # row["Low<Open%"]
                    /\ FLeq(row["Low<Open%"], row["High>Open%"]))
            /\ row["High>Open%"] = row["Low<Open%"] => row["Signal"] = "SELL"

\* a report with a BUY row and a SELL row whose two percentages are equal
C5_Witness ==
    /\ pc = "done"
    /\ \E a, b \in 1..Len(final_results) :
           /\ final_results[a]["Signal"] = "BUY"
           /\ final_results[b]["Signal"] = "SELL"
           /\ final_results[b]["High>Open%"] = final_results[b]["Low<Open%"]
           /\ final_results[b]["High>Open%"] = FInt(100)

\* C6: the ranked report is a permutation of the per-ticker results with
\* every field of every row unchanged, and High>Open>Low% never increases
\* from one row to the next.
C6_RankedPermutation ==
    pc = "done" =>
        /\ Len(final_results) = Len(results)
        /\ \E p \in Permutations(Len(results)) :
               \A j \in 1..Len(results) :
                   \A f \in DOMAIN results[p[j]] :
                       final_results[j][f] = results[p[j]][f]
        /\ \A j \in 1..(Len(final_results) - 1) :
               FLeq(final_results[j + 1]["High>Open>Low%"],
                    final_results[j]["High>Open>Low%"])

\* a report of three rows with three different keys whose results came in
\* rising order, so that ranking turned the order around
C6_Witness ==
    /\ pc = "done"
    /\ Len(results) = 3
    /\ FLess(results[1]["High>Open>Low%"], results[2]["High>Open>Low%"])
    /\ FLess(results[2]["High>Open>Low%"], results[3]["High>Open>Low%"])
    /\ final_results[1]["Ticker"] = results[3]["Ticker"]
    /\ final_results[3]["Ticker"] = results[1]["Ticker"]

\* the frames a second sort of the ranked report can return
Resorted == sort_values(final_results, "High>Open>Low%", FALSE)

\* C7 as stated: sorting the ranked report again gives the same row
\* order, rows of equal High>Open>Low% included.
C7_AsStated ==
    (pc = "done" /\ final_results # <<>>) => Resorted = {final_results}

\* C7 amended: sorting the ranked report again leaves High>Open>Low% the
\* same in every position and every row whose key no other row has in its
\* place; only rows of equal key may change places among themselves.
C7_IdempotentUpToTies ==
    (pc = "done" /\ final_results # <<>>) =>
        \A again \in Resorted :
            /\ Len(again) = Len(final_results)
            /\ \A j \in 1..Len(again) :
                   /\ again[j]["High>Open>Low%"] = final_results[j]["High>Open>Low%"]
                   /\ \E k \in 1..Len(again) :
                          /\ again[j] = final_results[k]
                          /\ again[k]["High>Open>Low%"] = again[j]["High>Open>Low%"]
                   /\ (\A k \in 1..Len(again) :
                           k # j => final_results[k]["High>Open>Low%"]
                                        # final_results[j]["High>Open>Low%"])
                          => again[j] = final_results[j]

\* a ranked report of three rows, the first with a key of its own and the
\* other two with one key, for which a second sort has two outcomes
C7_Witness ==
    /\ pc = "done"
    /\ Len(final_results) = 3
    /\ final_results[1]["High>Open>Low%"] # final_results[2]["High>Open>Low%"]
    /\ final_results[2]["High>Open>Low%"] = final_results[3]["High>Open>Low%"]
    /\ final_results[2] # final_results[3]
    /\ Cardinality(Resorted) = 2

\* the positions of the report whose Signal is sig
RowsWith(sig) == {j \in 1..Len(final_results) : final_results[j]["Signal"] = sig}

RECURSIVE SumOver(_, _)
\* High>Open>Low% of the rows of J added up from the top row down
SumOver(J, acc) ==
    IF J = {} THEN acc
    ELSE LET j == CHOOSE a \in J : \A b \in J : a <= b
         IN  SumOver(J \ {j}, FAdd(acc, final_results[j]["High>Open>Low%"]))

MeanOver(J) == IF J = {} THEN FNaN ELSE FDivInt(SumOver(J, FZero), Cardinality(J))

\* C8: for every non-empty report the BUY count and the SELL count add up
\* to the number of rows, each average is the mean of High>Open>Low% over
\* exactly the rows of its signal, and the average of an empty subset is
\* NaN with the summary still shown.
C8_Summary ==
    (pc = "done" /\ final_results # <<>>) =>
        /\ summary # None
        /\ Shown("summary")
        /\ summary.buy + summary.sell = Len(final_results)
        /\ summary.buy = Cardinality(RowsWith("BUY"))
        /\ summary.sell = Cardinality(RowsWith("SELL"))
        /\ summary.avg_buy = MeanOver(RowsWith("BUY"))
        /\ summary.avg_sell = MeanOver(RowsWith("SELL"))
        /\ RowsWith("BUY") = {} => summary.avg_buy = FNaN
        /\ RowsWith("SELL") = {} => summary.avg_sell = FNaN

\* a report of two BUY rows of different High>Open>Low% and no SELL row:
\* the BUY average lies between the two and the SELL average is NaN
C8_Witness ==
    /\ pc = "done"
    /\ Shown("summary")
    /\ summary # None
    /\ summary.buy = 2
    /\ summary.sell = 0
    /\ summary.avg_sell = FNaN
    /\ FLess(final_results[2]["High>Open>Low%"], summary.avg_buy)
    /\ FLess(summary.avg_buy, final_results[1]["High>Open>Low%"])

====
